---- MODULE Spec2Model ----
(***************************************************************************)
(* QR scanner: the scans table, the two persistence modules that wrap it   *)
(* (expo-sqlite), the /scans/[id] route handlers (better-sqlite3) and the  *)
(* capture screen that posts a record for every decoded QR code.           *)
(*                                                                         *)
(* JavaScript and SQL values are tagged records, so that 0, "", null and   *)
(* undefined stay distinct values and `||`, `??` and COALESCE can be       *)
(* modelled by what they do to each of them.                               *)
(***************************************************************************)
EXTENDS Integers, Sequences, FiniteSets, TLC

VARIABLES
    tableExists,  \* whether CREATE TABLE scans has run on the database file
    rows,         \* the rows of table scans
    seq,          \* sqlite_sequence entry of scans: the largest id ever assigned
    now,          \* the clock behind Date.now() and CURRENT_TIMESTAMP
    last,         \* the last completed call: operation, arguments, result
    gone,         \* ids whose DELETE request was answered with success
    asked,        \* scanner screen: the location permission request has settled
    locationPermission,  \* scanner screen state: permission granted
    location,     \* scanner screen state: the last position obtained, or null
    lastScan,     \* scanner screen state: the last scan result, or null
    scanCount,    \* scanner screen state: number of scans handled
    handler,      \* one handleBarCodeScanned invocation per decode event
    conn,         \* state of the route handlers' database connection
    scans,        \* history screen state: the displayed list
    loading,      \* history screen state: a list fetch is running
    refreshing,   \* history screen state: pull-to-refresh is running
    requests      \* the requests the history screen has sent, in order

scannerVars == <<asked, locationPermission, location, lastScan, scanCount, handler>>
historyVars == <<scans, loading, refreshing, requests>>
vars == <<tableExists, rows, seq, now, last, gone,
          asked, locationPermission, location, lastScan, scanCount, handler,
          conn, scans, loading, refreshing, requests>>

-----------------------------------------------------------------------------
(* Bounds of the model *)

\* at most this many rows are ever inserted (ids 1..MaxSeq are assigned)
MaxSeq == 2

\* at most this many QR codes are decoded by the scanner screen
MaxEvents == 2

\* at most this many requests are sent by the history screen
MaxRequests == 3

\* the instants the clock passes through
Times == {1, 2}

-----------------------------------------------------------------------------
(* Values *)

Undefined == [t |-> "undefined"]
JsNull == [t |-> "null"]
Num(n) == [t |-> "number", v |-> n]
Str(s) == [t |-> "string", v |-> s]

\* JavaScript truthiness of the values the model uses
Falsy(x) == x \in {Undefined, JsNull, Num(0), Str("")}

\* x || null
OrNull(x) == IF Falsy(x) THEN JsNull ELSE x

\* x ?? null
NullishNull(x) == IF x \in {Undefined, JsNull} THEN JsNull ELSE x

\* SQL COALESCE(p, old)
Coalesce(p, old) == IF p = JsNull THEN old ELSE p

Max2(a, b) == IF a >= b THEN a ELSE b

RECURSIVE MaxOf(_)
MaxOf(S) == IF S = {} THEN 0
            ELSE LET x == CHOOSE y \in S : TRUE IN Max2(x, MaxOf(S \ {x}))

-----------------------------------------------------------------------------
(* The scans table *)

Ids(R) == {r.id : r \in R}

RowOf(R, id) == CHOOSE r \in R : r.id = id

\* id INTEGER PRIMARY KEY AUTOINCREMENT: one more than the largest id the
\* table has ever held, which sqlite_sequence remembers across deletes.
NextRowIdReuse(R, sq) == MaxOf(Ids(R)) + 1
NextRowId(R, sq) == Max2(sq, MaxOf(Ids(R))) + 1

\* qr_data TEXT NOT NULL, timestamp INTEGER NOT NULL
NotNullOk(p) == p.qr_data # JsNull /\ p.timestamp # JsNull

\* an insert that replaces the row already holding the same qr_data
InsertedRowUpsert(R, sq, p, t) ==
    [id |-> IF \E r \in R : r.qr_data = p.qr_data
            THEN (CHOOSE r \in R : r.qr_data = p.qr_data).id
            ELSE NextRowId(R, sq),
     qr_data |-> p.qr_data,
     latitude |-> p.latitude,
     longitude |-> p.longitude,
     altitude |-> p.altitude,
     accuracy |-> p.accuracy,
     timestamp |-> p.timestamp,
     created_at |-> t]

\* INSERT INTO scans (qr_data, latitude, longitude, altitude, accuracy, timestamp)
\* VALUES (?, ?, ?, ?, ?, ?); created_at takes its default.
InsertedRow(R, sq, p, t) ==
    [id |-> NextRowId(R, sq),
     qr_data |-> p.qr_data,
     latitude |-> p.latitude,
     longitude |-> p.longitude,
     altitude |-> p.altitude,
     accuracy |-> p.accuracy,
     timestamp |-> p.timestamp,
     created_at |-> t]

\* SELECT * FROM scans ORDER BY timestamp DESC: repeatedly emit a row of
\* largest timestamp; SQL leaves the order of equal timestamps open, so every
\* order of ties is a possible result.
RECURSIVE OrderByTimestampAsc(_)
OrderByTimestampAsc(R) ==
    IF R = {} THEN {<<>>}
    ELSE UNION {{<<r>> \o l : l \in OrderByTimestampAsc(R \ {r})} :
                r \in {x \in R : \A y \in R : x.timestamp.v <= y.timestamp.v}}
RECURSIVE OrderByTimestampDesc(_)
OrderByTimestampDesc(R) ==
    IF R = {} THEN {<<>>}
    ELSE UNION {{<<r>> \o l : l \in OrderByTimestampDesc(R \ {r})} :
                r \in {x \in R : \A y \in R : x.timestamp.v >= y.timestamp.v}}

\* DELETE FROM scans WHERE id = ?
DeleteWhereIdAll(R, id) == {}
DeleteWhereId(R, id) == {r \in R : r.id # id}

-----------------------------------------------------------------------------
(* Inputs of the persistence layer *)

Coords == {JsNull, Num(0), Num(1)}

\* scanData records handed to addScan: every numeric field ranges over null,
\* 0 and 1 (latitude/longitude in all nine combinations), an omitted field is
\* Undefined, timestamps can tie or differ.
ScanInputs ==
    {[qr_data |-> Str("a"), latitude |-> la, longitude |-> lo,
      altitude |-> JsNull, accuracy |-> JsNull, timestamp |-> Num(ts)] :
        la \in Coords, lo \in Coords, ts \in {1, 2}}
    \cup
    {[qr_data |-> Str("a"), latitude |-> Num(1), longitude |-> Num(1),
      altitude |-> aa[1], accuracy |-> aa[2], timestamp |-> Num(ts)] :
        aa \in {<<Num(0), Num(1)>>, <<Num(1), Num(0)>>, <<Undefined, Undefined>>},
        ts \in {1, 2}}

\* ids handed to deleteScan: every id that can have been assigned, and one
\* that never is
DeleteIds == 1..(MaxSeq + 1)

-----------------------------------------------------------------------------
(* Persistence module with initialisation guards (expo-sqlite) *)

\* CREATE TABLE IF NOT EXISTS scans (...)
initDatabase_p3 ==
    /\ tableExists' = TRUE
    /\ last' = [op |-> "initDatabase", impl |-> "p3", outcome |-> "resolved"]
    /\ UNCHANGED <<rows, seq, now, gone, scannerVars, conn, historyVars>>

getScans_p3 ==
    /\ tableExists' = TRUE              \* await initDatabase()
    /\ \E listing \in OrderByTimestampDesc(rows) :
          last' = [op |-> "getScans", impl |-> "p3", hadTable |-> TRUE,
                   outcome |-> "resolved", value |-> listing]
    /\ UNCHANGED <<rows, seq, now, gone, scannerVars, conn, historyVars>>

\* the values bound to the INSERT: scanData.x ?? null
BindNullish(s) ==
    [qr_data |-> s.qr_data,
     latitude |-> NullishNull(s.latitude),
     longitude |-> NullishNull(s.longitude),
     altitude |-> NullishNull(s.altitude),
     accuracy |-> NullishNull(s.accuracy),
     timestamp |-> s.timestamp]

addScan_p3(s) ==
    /\ seq < MaxSeq
    /\ tableExists' = TRUE              \* await initDatabase()
    /\ LET p == BindNullish(s)
           row == InsertedRow(rows, seq, p, now)
       IN IF NotNullOk(p)
          THEN /\ rows' = rows \cup {row}
               /\ seq' = Max2(seq, row.id)
               /\ last' = [op |-> "addScan", impl |-> "p3", arg |-> s,
                           hadTable |-> TRUE,
                           outcome |-> IF row.id # 0 THEN "resolved" ELSE "rejected",
                           value |-> row.id]
          ELSE /\ UNCHANGED <<rows, seq>>
               /\ last' = [op |-> "addScan", impl |-> "p3", arg |-> s,
                           hadTable |-> TRUE, outcome |-> "rejected"]
    /\ UNCHANGED <<now, gone, scannerVars, conn, historyVars>>

deleteScan_p3(id) ==
    /\ tableExists' = TRUE              \* await initDatabase()
    /\ rows' = DeleteWhereId(rows, id)
    /\ last' = [op |-> "deleteScan", impl |-> "p3", arg |-> id, hadTable |-> TRUE,
                outcome |-> "resolved",
                value |-> (Cardinality(rows) - Cardinality(rows') > 0)]
    /\ UNCHANGED <<seq, now, gone, scannerVars, conn, historyVars>>

-----------------------------------------------------------------------------
(* Persistence module without guards (expo-sqlite) *)

initDatabase_p2 ==
    /\ tableExists' = TRUE
    /\ last' = [op |-> "initDatabase", impl |-> "p2", outcome |-> "returned"]
    /\ UNCHANGED <<rows, seq, now, gone, scannerVars, conn, historyVars>>

\* without the table the SELECT fails and the promise is rejected
getScans_p2 ==
    /\ IF tableExists
       THEN \E listing \in OrderByTimestampDesc(rows) :
               last' = [op |-> "getScans", impl |-> "p2", hadTable |-> TRUE,
                        outcome |-> "resolved", value |-> listing]
       ELSE last' = [op |-> "getScans", impl |-> "p2", hadTable |-> FALSE,
                     outcome |-> "rejected"]
    /\ UNCHANGED <<tableExists, rows, seq, now, gone, scannerVars, conn, historyVars>>

\* the values bound to the INSERT: scanData.x || null
BindOrNull(s) ==
    [qr_data |-> s.qr_data,
     latitude |-> OrNull(s.latitude),
     longitude |-> OrNull(s.longitude),
     altitude |-> OrNull(s.altitude),
     accuracy |-> OrNull(s.accuracy),
     timestamp |-> s.timestamp]

\* resolves with the row read back by SELECT * FROM scans WHERE id = insertId
addScan_p2(s) ==
    /\ seq < MaxSeq
    /\ LET p == BindOrNull(s)
           row == InsertedRow(rows, seq, p, now)
       IN IF tableExists /\ NotNullOk(p)
          THEN /\ rows' = rows \cup {row}
               /\ seq' = Max2(seq, row.id)
               /\ last' = [op |-> "addScan", impl |-> "p2", arg |-> s,
                           hadTable |-> TRUE, outcome |-> "resolved",
                           value |-> RowOf(rows', row.id)]
          ELSE /\ UNCHANGED <<rows, seq>>
               /\ last' = [op |-> "addScan", impl |-> "p2", arg |-> s,
                           hadTable |-> tableExists, outcome |-> "rejected"]
    /\ UNCHANGED <<tableExists, now, gone, scannerVars, conn, historyVars>>

\* resolve(true) from the statement's success callback, resolve(false) from
\* its error callback; the number of rows affected is not looked at
deleteScan_p2(id) ==
    /\ IF tableExists
       THEN /\ rows' = DeleteWhereId(rows, id)
            /\ last' = [op |-> "deleteScan", impl |-> "p2", arg |-> id,
                        hadTable |-> TRUE, outcome |-> "resolved", value |-> TRUE]
       ELSE /\ rows' = rows
            /\ last' = [op |-> "deleteScan", impl |-> "p2", arg |-> id,
                        hadTable |-> FALSE, outcome |-> "resolved", value |-> FALSE]
    /\ UNCHANGED <<tableExists, seq, now, gone, scannerVars, conn, historyVars>>

-----------------------------------------------------------------------------
(* Route handlers for /scans/{id} (better-sqlite3) *)

NaN == [t |-> "NaN"]

WhiteSpace == {" "}

DecDigits == <<"0", "1", "2", "3", "4", "5", "6", "7", "8", "9">>
HexDigits == DecDigits \o <<"a", "b", "c", "d", "e", "f">>

IsDigit(c, digits) == \E i \in DOMAIN digits : digits[i] = c
DigitVal(c, digits) == (CHOOSE i \in DOMAIN digits : digits[i] = c) - 1

RECURSIVE TrimStart(_)
TrimStart(str) ==
    IF str # <<>> /\ Head(str) \in WhiteSpace THEN TrimStart(Tail(str)) ELSE str

\* value of the longest prefix of str made of digits, continuing from acc;
\* <<acc, number of digits read>>
RECURSIVE DigitPrefix(_, _, _, _)
DigitPrefix(str, digits, acc, n) ==
    IF str # <<>> /\ IsDigit(Head(str), digits)
    THEN DigitPrefix(Tail(str), digits,
                     acc * Len(digits) + DigitVal(Head(str), digits), n + 1)
    ELSE <<acc, n>>

\* parseInt(string) with no radix: leading white space is skipped, a sign is
\* taken, "0x" switches to base 16, then the longest prefix of digits is
\* converted and whatever follows it is ignored; NaN when no digit is read.
ParseInt(str) ==
    LET s1 == TrimStart(str)
        neg == s1 # <<>> /\ Head(s1) = "-"
        s2 == IF s1 # <<>> /\ Head(s1) \in {"-", "+"} THEN Tail(s1) ELSE s1
        hex == Len(s2) >= 2 /\ s2[1] = "0" /\ s2[2] \in {"x", "X"}
        s3 == IF hex THEN Tail(Tail(s2)) ELSE s2
        pre == DigitPrefix(s3, IF hex THEN HexDigits ELSE DecDigits, 0, 0)
    IN IF pre[2] = 0 THEN NaN
       ELSE Num(IF neg THEN 0 - pre[1] ELSE pre[1])

IsNaN(x) == x = NaN

\* the envelopes the handlers answer with
InvalidId == [status |-> 400, body |-> [success |-> FALSE, error |-> "Invalid scan ID"]]
NotFoundAsFailure ==
    [status |-> 500, body |-> [success |-> FALSE, error |-> "Scan not found"]]
NotFound == [status |-> 404, body |-> [success |-> FALSE, error |-> "Scan not found"]]
FailedWithoutStatus(what, message) ==
    [status |-> 200, body |-> [success |-> FALSE, error |-> what, message |-> message]]
Failed(what, message) ==
    [status |-> 500, body |-> [success |-> FALSE, error |-> what, message |-> message]]

\* db.prepare(...).get/run throws when the table is missing or the connection
\* cannot take the statement: "busy" refuses every statement, "readonly"
\* refuses the writing ones
ConnStates == {"ok", "readonly", "busy"}
ReadThrows == ~tableExists \/ conn = "busy"
ReadError == IF ~tableExists THEN "no such table: scans" ELSE "database is locked"
WriteThrows == conn = "readonly"
WriteError == "attempt to write a readonly database"

\* a lookup that finds a row whatever the table holds
SelectFindsAlways(R, id) == {[id |-> id]}

\* SELECT ... FROM scans WHERE id = ?
SelectById(R, id) == {r \in R : r.id = id}

\* GET: Retrieve specific scan by ID
GET(id) ==
    /\ LET scanId == ParseInt(id)
       IN IF IsNaN(scanId)
          THEN last' = [op |-> "GET", id |-> id, stmts |-> <<>>] @@ InvalidId
          ELSE IF ReadThrows
          THEN last' = [op |-> "GET", id |-> id, stmts |-> <<"SELECT">>]
                       @@ Failed("Failed to fetch scan", ReadError)
          ELSE IF SelectById(rows, scanId.v) = {}
          THEN last' = [op |-> "GET", id |-> id, stmts |-> <<"SELECT">>] @@ NotFound
          ELSE last' = [op |-> "GET", id |-> id, stmts |-> <<"SELECT">>,
                        status |-> 200,
                        body |-> [success |-> TRUE, scan |-> RowOf(rows, scanId.v)]]
    /\ UNCHANGED <<tableExists, rows, seq, now, gone, scannerVars, conn, historyVars>>

\* DELETE: Remove specific scan by ID.  No await stands between the existence
\* check and the delete statement and better-sqlite3 statements are
\* synchronous, so the handler runs as one step.
DeleteHandler(id) ==
    LET scanId == ParseInt(id)
    IN IF IsNaN(scanId)
       THEN /\ last' = [op |-> "DELETE", id |-> id, stmts |-> <<>>] @@ InvalidId
            /\ UNCHANGED <<tableExists, rows, seq, now, gone, scannerVars, conn>>
       ELSE IF ReadThrows
       THEN /\ last' = [op |-> "DELETE", id |-> id, stmts |-> <<"SELECT">>]
                       @@ Failed("Failed to delete scan", ReadError)
            /\ UNCHANGED <<tableExists, rows, seq, now, gone, scannerVars, conn>>
       ELSE IF SelectById(rows, scanId.v) = {}
       THEN /\ last' = [op |-> "DELETE", id |-> id, stmts |-> <<"SELECT">>] @@ NotFound
            /\ UNCHANGED <<tableExists, rows, seq, now, gone, scannerVars, conn>>
       ELSE IF WriteThrows
       THEN /\ last' = [op |-> "DELETE", id |-> id, stmts |-> <<"SELECT", "DELETE">>]
                       @@ Failed("Failed to delete scan", WriteError)
            /\ UNCHANGED <<tableExists, rows, seq, now, gone, scannerVars, conn>>
       ELSE /\ rows' = DeleteWhereId(rows, scanId.v)
            /\ last' = [op |-> "DELETE", id |-> id, stmts |-> <<"SELECT", "DELETE">>,
                        status |-> 200,
                        body |-> [success |-> TRUE,
                                  message |-> "Scan deleted successfully",
                                  deletedId |-> scanId.v,
                                  changes |-> Cardinality(rows) - Cardinality(rows')]]
            /\ gone' = gone \cup {scanId.v}
            /\ UNCHANGED <<tableExists, seq, now, scannerVars, conn>>

\* a DELETE request from outside the history screen
DELETE(id) == DeleteHandler(id) /\ UNCHANGED historyVars

\* UPDATE scans SET x = COALESCE(?, x), ... WHERE id = ?, the parameters
\* being body.x || null; timestamp and created_at are not in the SET list.
UpdatedRowNoCoalesce(r, b) ==
    [r EXCEPT !.qr_data = OrNull(b.qr_data),
              !.latitude = OrNull(b.latitude),
              !.longitude = OrNull(b.longitude),
              !.altitude = OrNull(b.altitude),
              !.accuracy = OrNull(b.accuracy)]
UpdatedRow(r, b) ==
    [r EXCEPT !.qr_data = Coalesce(OrNull(b.qr_data), @),
              !.latitude = Coalesce(OrNull(b.latitude), @),
              !.longitude = Coalesce(OrNull(b.longitude), @),
              !.altitude = Coalesce(OrNull(b.altitude), @),
              !.accuracy = Coalesce(OrNull(b.accuracy), @)]

\* the UPDATE without its WHERE clause
UpdateEveryRow(R, id, b) == {UpdatedRow(r, b) : r \in R}
UpdateWhereId(R, id, b) == {IF r.id = id THEN UpdatedRow(r, b) ELSE r : r \in R}

\* PUT: Update specific scan by ID.  req.kind says what request.json() yields:
\* "invalid" (it throws), "null" (the JSON value null, whose properties
\* cannot be read) or "object" (req.fields, an absent key being Undefined).
PUT(id, req) ==
    LET scanId == ParseInt(id)
        base == [op |-> "PUT", id |-> id, req |-> req]
    IN IF IsNaN(scanId)
       THEN /\ last' = base @@ [stmts |-> <<>>] @@ InvalidId
            /\ UNCHANGED <<tableExists, rows, seq, now, gone, scannerVars, conn, historyVars>>
       ELSE IF req.kind = "invalid"
       THEN /\ last' = base @@ [stmts |-> <<>>]
                       @@ Failed("Failed to update scan", "SyntaxError")
            /\ UNCHANGED <<tableExists, rows, seq, now, gone, scannerVars, conn, historyVars>>
       ELSE IF ReadThrows
       THEN /\ last' = base @@ [stmts |-> <<"SELECT">>]
                       @@ Failed("Failed to update scan", ReadError)
            /\ UNCHANGED <<tableExists, rows, seq, now, gone, scannerVars, conn, historyVars>>
       ELSE IF SelectById(rows, scanId.v) = {}
       THEN /\ last' = base @@ [stmts |-> <<"SELECT">>] @@ NotFound
            /\ UNCHANGED <<tableExists, rows, seq, now, gone, scannerVars, conn, historyVars>>
       ELSE IF req.kind = "null"
       THEN /\ last' = base @@ [stmts |-> <<"SELECT">>]
                       @@ Failed("Failed to update scan", "TypeError")
            /\ UNCHANGED <<tableExists, rows, seq, now, gone, scannerVars, conn, historyVars>>
       ELSE IF WriteThrows
       THEN /\ last' = base @@ [stmts |-> <<"SELECT", "UPDATE">>]
                       @@ Failed("Failed to update scan", WriteError)
            /\ UNCHANGED <<tableExists, rows, seq, now, gone, scannerVars, conn, historyVars>>
       ELSE /\ rows' = UpdateWhereId(rows, scanId.v, req.fields)
            /\ last' = base @@
                       [stmts |-> <<"SELECT", "UPDATE", "SELECT">>,
                        status |-> 200,
                        body |-> [success |-> TRUE,
                                  message |-> "Scan updated successfully",
                                  scan |-> RowOf(rows', scanId.v),
                                  changes |-> Cardinality(SelectById(rows, scanId.v))]]
            /\ UNCHANGED <<tableExists, seq, now, gone, scannerVars, conn, historyVars>>

\* the connection of the route handlers starts or stops refusing statements
connFault(k) ==
    /\ conn = "ok"
    /\ conn' = k
    /\ last' = [op |-> "connFault", kind |-> k]
    /\ UNCHANGED <<tableExists, rows, seq, now, gone, scannerVars, historyVars>>

connRecovers ==
    /\ conn # "ok"
    /\ conn' = "ok"
    /\ last' = [op |-> "connRecovers"]
    /\ UNCHANGED <<tableExists, rows, seq, now, gone, scannerVars, historyVars>>

(* Inputs of the route handlers *)

\* the {id} segment of the path, as a sequence of characters
IdStrings ==
    {<<>>, <<"1">>, <<"2">>, <<"9">>, <<"2", "x">>, <<"x", "2">>, <<" ", "1">>,
     <<"1", "2", "a", "b", "c">>}

NoFields ==
    [qr_data |-> Undefined, latitude |-> Undefined, longitude |-> Undefined,
     altitude |-> Undefined, accuracy |-> Undefined, timestamp |-> Undefined]

\* PUT bodies: unparseable, the JSON null, the empty object, and objects that
\* provide some fields, with 0, "" and null among the provided values
PutBodies ==
    {[kind |-> "invalid", fields |-> NoFields],
     [kind |-> "null", fields |-> NoFields]}
    \cup
    {[kind |-> "object", fields |-> f] :
        f \in {NoFields,
               [NoFields EXCEPT !.qr_data = Str("")],
               [NoFields EXCEPT !.latitude = Num(0)],
               [NoFields EXCEPT !.latitude = Num(2)],
               [NoFields EXCEPT !.longitude = JsNull, !.altitude = Num(0)],
               [NoFields EXCEPT !.qr_data = Str("b"), !.longitude = Num(2),
                                !.altitude = Num(2), !.accuracy = Num(2)],
               [NoFields EXCEPT !.accuracy = Num(0), !.timestamp = Num(9)]}}

\* records the rows of the route specification are created from
SeedInputs ==
    {[qr_data |-> Str("a"), latitude |-> JsNull, longitude |-> JsNull,
      altitude |-> JsNull, accuracy |-> JsNull, timestamp |-> Num(1)],
     [qr_data |-> Str("a"), latitude |-> Num(1), longitude |-> Num(1),
      altitude |-> Num(1), accuracy |-> Num(1), timestamp |-> Num(2)]}

-----------------------------------------------------------------------------
(* Scanner screen: the capture flow *)

\* decoded QR payloads
Payloads == {Str("a"), Str("b")}

\* coords of the positions the location service reports; latitude and
\* longitude are numbers, altitude and accuracy may be null
LocationFixes ==
    {[latitude |-> Num(0), longitude |-> Num(1), altitude |-> JsNull, accuracy |-> Num(1)],
     [latitude |-> Num(1), longitude |-> Num(1), altitude |-> Num(0), accuracy |-> JsNull]}

\* time passes
Tick ==
    /\ now + 1 \in Times
    /\ now' = now + 1
    /\ last' = [op |-> "tick"]
    /\ UNCHANGED <<tableExists, rows, seq, gone, scannerVars, conn, historyVars>>

\* Location.requestForegroundPermissionsAsync() settles with a status, or
\* throws; the getCurrentLocation() call of the same effect reads
\* locationPermission while it is still false and does nothing.
getLocationPermission(status) ==
    /\ ~asked
    /\ asked' = TRUE
    /\ locationPermission' = IF status = "error" THEN locationPermission
                             ELSE (status = "granted")
    /\ last' = [op |-> "getLocationPermission", status |-> status,
                alert |-> (status \notin {"granted", "error"})]
    /\ UNCHANGED <<tableExists, rows, seq, now, gone, location, lastScan,
                   scanCount, handler, conn, historyVars>>

\* scanResult.location?.coords.x
OptCoord(loc, k) == IF loc = JsNull THEN Undefined ELSE loc[k]

\* the requestBody of saveScanToDatabase
RequestBody(scanResult) ==
    [qr_data |-> scanResult.data,
     latitude |-> OrNull(OptCoord(scanResult.location, "latitude")),
     longitude |-> OrNull(OptCoord(scanResult.location, "longitude")),
     altitude |-> OrNull(OptCoord(scanResult.location, "altitude")),
     accuracy |-> OrNull(OptCoord(scanResult.location, "accuracy")),
     timestamp |-> scanResult.timestamp]

\* handleBarCodeScanned from the scanResult to the fetch of saveScanToDatabase:
\* the invocation's record once its POST is in flight
Posting(data, currentLocation, t) ==
    LET scanResult == [data |-> data, location |-> currentLocation,
                       timestamp |-> Num(t)]
    IN [pc |-> "posting", data |-> data, scanResult |-> scanResult,
        body |-> RequestBody(scanResult), save |-> "pending", logged |-> FALSE]

\* a QR code is decoded: handleBarCodeScanned starts, and waits for the
\* position when the permission is granted
handleBarCodeScanned(data) ==
    /\ Len(handler) < MaxEvents
    /\ IF locationPermission
       THEN /\ handler' = Append(handler,
                  [pc |-> "locating", data |-> data, scanResult |-> JsNull,
                   body |-> JsNull, save |-> "none", logged |-> FALSE])
            /\ UNCHANGED <<lastScan, scanCount, conn, historyVars>>
       ELSE /\ handler' = Append(handler, Posting(data, location, now))
            /\ lastScan' = handler'[Len(handler')].scanResult
            /\ scanCount' = scanCount + 1
    /\ last' = [op |-> "handleBarCodeScanned", event |-> Len(handler) + 1]
    /\ UNCHANGED <<tableExists, rows, seq, now, gone, asked, locationPermission,
                   location, conn, historyVars>>

\* Location.getCurrentPositionAsync({}) resolves
locationResolved(e, fix) ==
    /\ e \in DOMAIN handler
    /\ handler[e].pc = "locating"
    /\ location' = fix
    /\ handler' = [handler EXCEPT ![e] = Posting(handler[e].data, fix, now)]
    /\ lastScan' = handler'[e].scanResult
    /\ scanCount' = scanCount + 1
    /\ last' = [op |-> "getCurrentPositionAsync", event |-> e, outcome |-> "resolved"]
    /\ UNCHANGED <<tableExists, rows, seq, now, gone, asked, locationPermission, conn, historyVars>>

\* Location.getCurrentPositionAsync({}) rejects: the catch of
\* handleBarCodeScanned logs, raises the alert and the invocation ends
locationRejected(e) ==
    /\ e \in DOMAIN handler
    /\ handler[e].pc = "locating"
    /\ handler' = [handler EXCEPT ![e].pc = "alerted", ![e].logged = TRUE]
    /\ last' = [op |-> "getCurrentPositionAsync", event |-> e, outcome |-> "rejected"]
    /\ UNCHANGED <<tableExists, rows, seq, now, gone, asked, locationPermission,
                   location, lastScan, scanCount, conn, historyVars>>

\* POST /scans: the record of the body is created as it stands
PostedRow(R, sq, body, t) == InsertedRow(R, sq, body, t)

\* the POST of invocation e completes: answered ok after the row is created,
\* answered not ok, or fetch throws.  saveScanToDatabase catches and logs a
\* failure and returns; handleBarCodeScanned then shows the notification.
fetchCompletes(e, outcome) ==
    /\ e \in DOMAIN handler
    /\ handler[e].pc = "posting"
    /\ IF outcome = "ok"
       THEN /\ tableExists
            /\ NotNullOk(handler[e].body)
            /\ LET row == PostedRow(rows, seq, handler[e].body, now)
               IN rows' = rows \cup {row} /\ seq' = Max2(seq, row.id)
            /\ handler' = [handler EXCEPT ![e].pc = "notified", ![e].save = "ok"]
       ELSE /\ UNCHANGED <<rows, seq>>
            /\ handler' = [handler EXCEPT ![e].pc = "notified", ![e].save = "failed",
                                           ![e].logged = TRUE]
    /\ last' = [op |-> "POST", event |-> e, outcome |-> outcome]
    /\ UNCHANGED <<tableExists, now, gone, asked, locationPermission, location,
                   lastScan, scanCount, conn, historyVars>>

-----------------------------------------------------------------------------
(* History screen *)

\* `/scans/${id}`: the decimal digits of a row id
RECURSIVE NumToString(_)
NumToString(n) ==
    IF n < 10 THEN <<DecDigits[n + 1]>>
    ELSE NumToString(n \div 10) \o <<DecDigits[(n % 10) + 1]>>

\* what fetch() yields when no response arrives
Threw == [t |-> "threw"]

\* response.ok
Ok(resp) == resp # Threw /\ resp.status >= 200 /\ resp.status <= 299

\* prev.filter(scan => scan.id !== id)
RECURSIVE FilterOut(_, _)
FilterOut(l, id) ==
    IF l = <<>> THEN <<>>
    ELSE IF Head(l).id = id THEN FilterOut(Tail(l), id)
    ELSE <<Head(l)>> \o FilterOut(Tail(l), id)

ShownIds(l) == {l[i].id : i \in DOMAIN l}

\* records the rows shown by the history screen are created from
HistorySeeds == {s \in SeedInputs : s.latitude = JsNull}

\* fetchScans up to its await; a pull-to-refresh sets refreshing first
fetchScans(trigger) ==
    /\ Len(requests) < MaxRequests
    /\ loading' = TRUE
    /\ refreshing' = IF trigger = "pull" THEN TRUE ELSE refreshing
    /\ requests' = Append(requests, [kind |-> "list", id |-> 0, pc |-> "sent",
                                     resp |-> JsNull])
    /\ last' = [op |-> "fetchScans", trigger |-> trigger]
    /\ UNCHANGED <<tableExists, rows, seq, now, gone, scannerVars, conn, scans>>

\* GET /scans: every row, most recent timestamp first
ListResponses(R) == {[status |-> 200, scans |-> l] : l \in OrderByTimestampDesc(R)}

\* the server answers list request i
listServed(i) ==
    /\ i \in DOMAIN requests
    /\ requests[i].kind = "list"
    /\ requests[i].pc = "sent"
    /\ \E resp \in IF ReadThrows THEN {[status |-> 500]} ELSE ListResponses(rows) :
          requests' = [requests EXCEPT ![i].pc = "answered", ![i].resp = resp]
    /\ last' = [op |-> "GET /scans", request |-> i]
    /\ UNCHANGED <<tableExists, rows, seq, now, gone, scannerVars, conn,
                   scans, loading, refreshing>>

\* fetch() of request i throws instead of yielding a response
fetchThrows(i) ==
    /\ i \in DOMAIN requests
    /\ requests[i].pc = "sent"
    /\ requests' = [requests EXCEPT ![i].pc = "answered", ![i].resp = Threw]
    /\ last' = [op |-> "fetch", request |-> i, outcome |-> "throws"]
    /\ UNCHANGED <<tableExists, rows, seq, now, gone, scannerVars, conn,
                   scans, loading, refreshing>>

\* fetchScans after its await: setScans(data.scans || []) when the response
\* is ok, then the finally block
fetchScansResumes(i) ==
    /\ i \in DOMAIN requests
    /\ requests[i].kind = "list"
    /\ requests[i].pc = "answered"
    /\ scans' = IF Ok(requests[i].resp) THEN requests[i].resp.scans ELSE scans
    /\ loading' = FALSE
    /\ refreshing' = FALSE
    /\ requests' = [requests EXCEPT ![i].pc = "done",
                                    ![i].resp = IF Ok(@) THEN [status |-> @.status] ELSE @]
    /\ last' = [op |-> "fetchScansResumes", request |-> i,
                ok |-> Ok(requests[i].resp)]
    /\ UNCHANGED <<tableExists, rows, seq, now, gone, scannerVars, conn>>

\* deleteScan(item.id) on a displayed item, confirmed with 'Eliminar': the
\* DELETE request is sent
deleteScan(id) ==
    /\ Len(requests) < MaxRequests
    /\ id \in ShownIds(scans)
    /\ requests' = Append(requests, [kind |-> "delete", id |-> id, pc |-> "sent",
                                     resp |-> JsNull])
    /\ last' = [op |-> "deleteScan", id |-> id]
    /\ UNCHANGED <<tableExists, rows, seq, now, gone, scannerVars, conn,
                   scans, loading, refreshing>>

\* the server answers delete request i: the DELETE handler runs on the id
\* written into the path
deleteServed(i) ==
    /\ i \in DOMAIN requests
    /\ requests[i].kind = "delete"
    /\ requests[i].pc = "sent"
    /\ DeleteHandler(NumToString(requests[i].id))
    /\ requests' = [requests EXCEPT ![i].pc = "answered",
                                    ![i].resp = [status |-> last'.status,
                                                 body |-> last'.body]]
    /\ UNCHANGED <<scans, loading, refreshing>>

\* the onPress handler after its await: the item is filtered out of the
\* displayed list when the response is ok, otherwise an alert is shown
deleteResumes(i) ==
    /\ i \in DOMAIN requests
    /\ requests[i].kind = "delete"
    /\ requests[i].pc = "answered"
    /\ scans' = IF Ok(requests[i].resp) THEN FilterOut(scans, requests[i].id) ELSE scans
    /\ requests' = [requests EXCEPT ![i].pc = "done"]
    /\ last' = [op |-> "deleteResumes", request |-> i,
                ok |-> Ok(requests[i].resp)]
    /\ UNCHANGED <<tableExists, rows, seq, now, gone, scannerVars, conn,
                   loading, refreshing>>

-----------------------------------------------------------------------------
(* Specifications *)

Init ==
    /\ tableExists = FALSE
    /\ rows = {}
    /\ seq = 0
    /\ now = 1
    /\ last = [op |-> "none"]
    /\ gone = {}
    /\ asked = FALSE
    /\ locationPermission = FALSE
    /\ location = JsNull
    /\ lastScan = JsNull
    /\ scanCount = 0
    /\ handler = <<>>
    /\ conn = "ok"
    /\ scans = <<>>
    /\ loading = FALSE
    /\ refreshing = FALSE
    /\ requests = <<>>

\* the persistence layer on its own: both modules over the one database file
NextPersist ==
    \/ initDatabase_p3
    \/ getScans_p3
    \/ \E s \in ScanInputs : addScan_p3(s)
    \/ \E id \in DeleteIds : deleteScan_p3(id)
    \/ initDatabase_p2
    \/ getScans_p2
    \/ \E s \in ScanInputs : addScan_p2(s)
    \/ \E id \in DeleteIds : deleteScan_p2(id)

SpecPersist == Init /\ [][NextPersist]_vars

\* the route handlers over a table the persistence layer creates, fills and
\* deletes from
NextRoute ==
    \/ initDatabase_p3
    \/ \E s \in SeedInputs : addScan_p3(s)
    \/ \E s \in SeedInputs : addScan_p2(s)
    \/ \E id \in DeleteIds : deleteScan_p3(id)
    \/ \E id \in IdStrings : GET(id)
    \/ \E id \in IdStrings : DELETE(id)
    \/ \E id \in IdStrings, req \in PutBodies : PUT(id, req)

SpecRoute == Init /\ [][NextRoute]_vars

\* the route handlers over a connection that can start refusing statements
NextFaults ==
    \/ \E s \in SeedInputs : addScan_p3(s)
    \/ \E k \in ConnStates \ {"ok"} : connFault(k)
    \/ connRecovers
    \/ \E id \in IdStrings : GET(id)
    \/ \E id \in IdStrings : DELETE(id)
    \/ \E id \in IdStrings, req \in PutBodies : PUT(id, req)

SpecFaults == Init /\ [][NextFaults]_vars

\* the history screen over a table the persistence layer fills
NextHistory ==
    \/ \E s \in HistorySeeds : addScan_p3(s)
    \/ \E trigger \in {"focus", "pull", "button"} : fetchScans(trigger)
    \/ \E i \in 1..MaxRequests : listServed(i)
    \/ \E i \in 1..MaxRequests : fetchThrows(i)
    \/ \E i \in 1..MaxRequests : fetchScansResumes(i)
    \/ \E id \in DeleteIds : deleteScan(id)
    \/ \E i \in 1..MaxRequests : deleteServed(i)
    \/ \E i \in 1..MaxRequests : deleteResumes(i)

SpecHistory == Init /\ [][NextHistory]_vars

\* the scanner screen, posting to a table the persistence layer creates
NextCapture ==
    \/ initDatabase_p3
    \/ Tick
    \/ \E status \in {"granted", "denied", "error"} : getLocationPermission(status)
    \/ \E data \in Payloads : handleBarCodeScanned(data)
    \/ \E e \in 1..MaxEvents, fix \in LocationFixes : locationResolved(e, fix)
    \/ \E e \in 1..MaxEvents : locationRejected(e)
    \/ \E e \in 1..MaxEvents, outcome \in {"ok", "notok", "throws"} :
          fetchCompletes(e, outcome)

SpecCapture == Init /\ [][NextCapture]_vars

\* every operation of the program
Next ==
    \/ NextPersist
    \/ NextRoute
    \/ NextCapture
    \/ NextFaults
    \/ NextHistory

Spec == Init /\ [][Next]_vars

-----------------------------------------------------------------------------
(* Vocabulary of the properties *)

Fields == {"qr_data", "latitude", "longitude", "altitude", "accuracy", "timestamp"}

RouteOps == {"GET", "DELETE", "PUT"}

\* a numeric id: a non-empty string of decimal digits, and the number it writes
IsNumericId(str) == str # <<>> /\ \A i \in DOMAIN str : IsDigit(str[i], DecDigits)

RECURSIVE DecimalValue(_)
DecimalValue(str) ==
    IF str = <<>> THEN 0
    ELSE 10 * DecimalValue(SubSeq(str, 1, Len(str) - 1))
         + DigitVal(str[Len(str)], DecDigits)

\* what a stored field holds when value x was passed for it (an omitted
\* optional field is stored as NULL)
Stored(x) == IF x = Undefined THEN JsNull ELSE x

RowMatches(r, s) ==
    /\ r.id >= 1
    /\ \A k \in Fields : r[k] = Stored(s[k])

IsListingOf(l, R) ==
    /\ Len(l) = Cardinality(R)
    /\ {l[i] : i \in DOMAIN l} = R

Descending(l) ==
    \A i, j \in DOMAIN l : i < j => l[i].timestamp.v >= l[j].timestamp.v

StrictlyDescending(l) ==
    \A i, j \in DOMAIN l : i < j => l[i].timestamp.v > l[j].timestamp.v

DistinctTimestamps(R) ==
    \A r1, r2 \in R : r1 # r2 => r1.timestamp # r2.timestamp

-----------------------------------------------------------------------------
(* C1 .. C9 *)

\* C1: a successful addScan followed by getScans returns a list that holds a
\* record with a non-null id whose qr_data, latitude, longitude, altitude,
\* accuracy and timestamp equal the values passed to addScan, in both
\* persistence modules.
C1_AddThenListRoundTrip ==
    [][(/\ last.op = "addScan"
        /\ last.outcome = "resolved"
        /\ last'.op = "getScans"
        /\ last'.impl = last.impl
        /\ last'.outcome = "resolved")
       => \E i \in DOMAIN last'.value : RowMatches(last'.value[i], last.arg)]_vars

\* C2: once the table is in place, getScans resolves, after any addScan and
\* deleteScan calls, with exactly the stored rows (none missing, none twice)
\* in descending timestamp order, strictly descending when the timestamps
\* are pairwise distinct, and with the empty list when no row is stored.
C2_ListExactDescending ==
    last.op = "getScans" =>
        /\ last.hadTable => last.outcome = "resolved"
        /\ last.outcome = "resolved" =>
              /\ IsListingOf(last.value, rows)
              /\ Descending(last.value)
              /\ DistinctTimestamps(rows) => StrictlyDescending(last.value)
              /\ rows = {} => last.value = <<>>

\* two rows listed against their insertion order, by the simpler module
C2_Witness ==
    /\ last.op = "getScans"
    /\ last.impl = "p2"
    /\ last.outcome = "resolved"
    /\ Len(last.value) = 2
    /\ last.value[1].id > last.value[2].id
    /\ last.value[1].timestamp.v > last.value[2].timestamp.v

\* C3: a DELETE request on an id that exists removes exactly the row with
\* that id, leaves every other row as it was and answers success with
\* changes = 1; every later GET on that id answers 404 'Scan not found'.
C3_DeleteThenGetNotFound ==
    /\ [](last.op = "GET" /\ IsNumericId(last.id) /\ DecimalValue(last.id) \in gone
            => last.status = 404 /\ last.body = NotFound.body)
    /\ [][(/\ last'.op = "DELETE"
           /\ IsNumericId(last'.id)
           /\ DecimalValue(last'.id) \in Ids(rows))
          => /\ rows' = rows \ {RowOf(rows, DecimalValue(last'.id))}
             /\ Cardinality(rows') = Cardinality(rows) - 1
             /\ last'.status = 200
             /\ last'.body.success
             /\ last'.body.changes = 1]_vars

\* a GET answered 404 for a deleted id while another row is still stored
C3_Witness ==
    /\ last.op = "GET"
    /\ IsNumericId(last.id)
    /\ DecimalValue(last.id) \in gone
    /\ last.status = 404
    /\ rows # {}

\* C4: deleteScan(id) with an id that has no row resolves with false, without
\* rejecting, and leaves the table unchanged; with an existing id it resolves
\* with true; in both persistence modules.
C4_DeleteScanReportsEffect ==
    [][last'.op = "deleteScan" =>
          /\ last'.outcome = "resolved"
          /\ IF last'.arg \in Ids(rows)
             THEN last'.value = TRUE
             ELSE last'.value = FALSE /\ rows' = rows]_vars

\* C5 as first stated: with the table in place, every GET, DELETE and PUT
\* whose id is numeric and matches no stored row is answered 404
\* {success: false, error: 'Scan not found'} and changes no row.
C5_MissingIdAlways404 ==
    [][(/\ last'.op \in RouteOps
        /\ tableExists
        /\ IsNumericId(last'.id)
        /\ DecimalValue(last'.id) \notin Ids(rows))
       => /\ last'.status = 404
          /\ last'.body = [success |-> FALSE, error |-> "Scan not found"]
          /\ rows' = rows]_vars

\* C5, amended: the same for every GET and DELETE, and for every PUT whose
\* body is parseable JSON; a PUT whose body cannot be parsed is answered 500
\* before the row is looked up.  No such request changes a row.
C5_MissingId404 ==
    [][(/\ last'.op \in RouteOps
        /\ tableExists
        /\ IsNumericId(last'.id)
        /\ DecimalValue(last'.id) \notin Ids(rows))
       => /\ rows' = rows
          /\ IF last'.op = "PUT" /\ last'.req.kind = "invalid"
             THEN last'.status = 500 /\ last'.stmts = <<>>
             ELSE /\ last'.status = 404
                  /\ last'.body = [success |-> FALSE, error |-> "Scan not found"]]_vars

\* a PUT with a JSON object for an id that has no row, other rows being stored
C5_Witness ==
    /\ last.op = "PUT"
    /\ last.req.kind = "object"
    /\ IsNumericId(last.id)
    /\ DecimalValue(last.id) \notin Ids(rows)
    /\ last.status = 404
    /\ rows # {}

\* C6: GET, DELETE and PUT reject every id string that is not a numeric id
\* (a numeric prefix followed by other characters and the empty string
\* included) with 400 {success: false, error: 'Invalid scan ID'} before any
\* storage statement is executed (looked at with the table in place, so that
\* a statement that is executed does not fail).
C6_NonNumericIdRejected ==
    (last.op \in RouteOps /\ tableExists /\ ~IsNumericId(last.id)) =>
        /\ last.status = 400
        /\ last.body = [success |-> FALSE, error |-> "Invalid scan ID"]
        /\ last.stmts = <<>>

\* C7: a PUT on an existing id overwrites every field its body provides
\* (0 and the empty string included) with the provided value and leaves
\* every field the body omits at its previous value.
C7_PutOverwritesProvided ==
    [][(/\ last'.op = "PUT"
        /\ last'.req.kind = "object"
        /\ IsNumericId(last'.id)
        /\ DecimalValue(last'.id) \in Ids(rows))
       => LET old == RowOf(rows, DecimalValue(last'.id))
              new == RowOf(rows', DecimalValue(last'.id))
              f == last'.req.fields
          IN \A k \in Fields :
                new[k] = IF f[k] \in {Undefined, JsNull} THEN old[k] ELSE f[k]]_vars

\* C8: no two stored rows share an id, a row's id never changes (an update
\* keeps the set of ids, only an insert adds one), and every inserted row
\* gets an id greater than every id assigned before, deleted ones included.
C8_IdsUniqueImmutableIncreasing ==
    /\ [](/\ Cardinality(Ids(rows)) = Cardinality(rows)
          /\ \A r \in rows : r.id >= 1 /\ r.id <= seq)
    /\ [][/\ seq' >= seq
          /\ \A r \in rows' : r.id \notin Ids(rows) =>
                r.id > seq /\ r.id = seq' /\ last'.op = "addScan"
          /\ Cardinality(Ids(rows') \ Ids(rows)) <= 1
          /\ last'.op = "PUT" => Ids(rows') = Ids(rows)]_vars

\* the first row was deleted and the next insert still got a larger id
C8_Witness ==
    /\ last.op = "addScan"
    /\ last.outcome = "resolved"
    /\ gone = {1}
    /\ Ids(rows) = {2}

\* C9: every stored row has latitude and longitude both null or both non-null.
C9_LatLonPaired ==
    \A r \in rows : (r.latitude = JsNull) <=> (r.longitude = JsNull)

\* C10: every decode event hands a record to persistence: its invocation
\* issues a POST that carries the decoded payload and a capture timestamp,
\* also when the position cannot be obtained, and with null location fields
\* when the location permission is not granted.
C10_EveryDecodePosts ==
    \A e \in DOMAIN handler :
        handler[e].pc \in {"posting", "notified", "alerted"} =>
            /\ handler[e].body # JsNull
            /\ handler[e].body.qr_data = handler[e].data
            /\ handler[e].body.timestamp \in {Num(t) : t \in Times}
            /\ ~locationPermission =>
                  \A k \in {"latitude", "longitude", "altitude", "accuracy"} :
                      handler[e].body[k] = JsNull

-----------------------------------------------------------------------------
(* C11 .. C17 *)

\* C11: when the POST of a scan throws or is answered not ok, the failure is
\* logged, a failure notification is raised for that scan instead of the
\* 'scanned correctly' one, and the scanner can still take a decode event.
C11_SaveFailureSurfaced ==
    \A e \in DOMAIN handler :
        handler[e].save = "failed" =>
            /\ handler[e].logged
            /\ handler[e].pc = "alerted"
            /\ Len(handler) < MaxEvents => ENABLED (\E d \in Payloads : handleBarCodeScanned(d))

\* the decode events whose save succeeded
Saved == {e \in DOMAIN handler : handler[e].save = "ok"}

\* C12: scans are not deduplicated: n decode events whose saves succeeded,
\* equal payloads included, leave n rows with n distinct ids, and a save
\* adds its row without touching a row that is already there.
C12_NoDeduplication ==
    /\ [](/\ Cardinality(rows) = Cardinality(Saved)
          /\ Cardinality(Ids(rows)) = Cardinality(Saved))
    /\ [][Cardinality(Saved') > Cardinality(Saved) =>
             /\ rows \subseteq rows'
             /\ Cardinality(rows') = Cardinality(rows) + 1
             /\ \A r \in rows' \ rows : r.id \notin Ids(rows)]_vars

\* two decode events with the same payload, position and timestamp, both saved
C12_Witness ==
    /\ Len(handler) >= 2
    /\ handler[1].save = "ok"
    /\ handler[2].save = "ok"
    /\ handler[1].body = handler[2].body
    /\ Cardinality(rows) = 2

\* C13: in both persistence modules the SELECT, INSERT or DELETE of every
\* getScans, addScan and deleteScan call runs after CREATE TABLE IF NOT EXISTS
\* has completed, and initDatabase on an initialised database leaves the
\* table and its rows as they are.
C13_InitBeforeStatements ==
    /\ [](last.op \in {"getScans", "addScan", "deleteScan"} => last.hadTable)
    /\ [][(last'.op = "initDatabase" /\ tableExists)
             => tableExists' /\ rows' = rows /\ seq' = seq]_vars

\* C17: a PUT, whatever its body, keeps the id, timestamp and created_at of
\* the targeted row, keeps every other row as it is and adds or removes no
\* row; a GET changes nothing in storage.
C17_PutGetFrame ==
    [][/\ last'.op = "PUT" =>
            /\ tableExists' = tableExists
            /\ seq' = seq
            /\ Cardinality(rows') = Cardinality(rows)
            /\ \A r \in rows : \E q \in rows' :
                   /\ q.id = r.id
                   /\ q.timestamp = r.timestamp
                   /\ q.created_at = r.created_at
            /\ Cardinality(rows \ rows') <= 1
            /\ \A r \in rows \ rows' :
                   IsNumericId(last'.id) => r.id = DecimalValue(last'.id)
       /\ last'.op = "GET" =>
            /\ tableExists' = tableExists
            /\ rows' = rows
            /\ seq' = seq]_vars

\* a PUT carrying qr_data, coordinates and a timestamp has rewritten one of
\* two stored rows
C17_Witness ==
    /\ last.op = "PUT"
    /\ last.status = 200
    /\ last.req.fields.qr_data = Str("b")
    /\ Cardinality(rows) = 2
    /\ \E r \in rows : r.qr_data = Str("b") /\ r.longitude = Num(2)
    /\ \E r \in rows : r.qr_data = Str("a")

\* C14: no failure escapes GET, DELETE or PUT: a storage statement that
\* throws (missing table, refused read, refused write) and a PUT body that
\* cannot be parsed or read are answered 500 with success false; every
\* response has a boolean success, true exactly when the status is 200.
C14_FailuresBecome500 ==
    /\ [](last.op \in RouteOps =>
            /\ "success" \in DOMAIN last.body
            /\ last.body.success \in BOOLEAN
            /\ last.body.success <=> last.status = 200)
    /\ [][(/\ last'.op \in RouteOps
           /\ IsNumericId(last'.id)
           /\ \/ ~tableExists
              \/ conn = "busy"
              \/ last'.op = "PUT" /\ last'.req.kind = "invalid"
              \/ /\ DecimalValue(last'.id) \in Ids(rows)
                 /\ \/ last'.op = "PUT" /\ last'.req.kind = "null"
                    \/ last'.op \in {"DELETE", "PUT"} /\ conn = "readonly")
             => /\ last'.status = 500
                /\ last'.body.success = FALSE]_vars

\* a DELETE whose delete statement was refused after its existence check
\* had found the row
C14_Witness ==
    /\ last.op = "DELETE"
    /\ last.stmts = <<"SELECT", "DELETE">>
    /\ conn = "readonly"
    /\ last.status = 500
    /\ last.body.success = FALSE
    /\ IsNumericId(last.id)
    /\ DecimalValue(last.id) \in Ids(rows)

\* the delete requests for id that the server has answered
DeleteAnswers(id) ==
    {i \in DOMAIN requests :
        /\ requests[i].kind = "delete"
        /\ requests[i].id = id
        /\ requests[i].pc \in {"answered", "done"}
        /\ requests[i].resp # Threw}

\* C15: of the DELETE requests in flight together for one existing id,
\* whatever the order in which they are served, exactly one is answered 200
\* with changes = 1 and every other one 404 'Scan not found'; no DELETE is
\* answered with success and changes = 0.
C15_OneDeleteWins ==
    \A id \in DeleteIds :
        LET A == DeleteAnswers(id)
        IN /\ \A i \in A : requests[i].resp.status = 200
                               => requests[i].resp.body.changes = 1
           /\ A # {} =>
                \E i \in A :
                    /\ requests[i].resp.status = 200
                    /\ requests[i].resp.body.success = TRUE
                    /\ requests[i].resp.body.changes = 1
                    /\ \A j \in A \ {i} :
                          /\ requests[j].resp.status = 404
                          /\ requests[j].resp.body.error = "Scan not found"

\* two DELETE requests for the same row were in flight together and both
\* have been answered, the later-sent one first
C15_Witness ==
    \E i, j \in DOMAIN requests :
        /\ i < j
        /\ requests[i].kind = "delete"
        /\ requests[j].kind = "delete"
        /\ requests[i].id = requests[j].id
        /\ requests[i].pc = "answered"
        /\ requests[j].pc = "answered"
        /\ requests[j].resp # Threw /\ requests[j].resp.status = 200
        /\ requests[i].resp # Threw /\ requests[i].resp.status = 404

\* the ids whose confirmed delete was answered ok and filtered out of the
\* displayed list
Removed ==
    {requests[i].id : i \in {k \in DOMAIN requests :
                                /\ requests[k].kind = "delete"
                                /\ requests[k].pc = "done"
                                /\ Ok(requests[k].resp)}}

\* C16: a scan whose confirmed delete was answered ok and which has left the
\* displayed list is never displayed again, whatever list fetches are in
\* flight; a delete answered not ok, or whose fetch throws, leaves the
\* displayed list as it was.
C16_DeletedStaysGone ==
    [][/\ \A id \in Removed :
              id \notin ShownIds(scans) => id \notin ShownIds(scans')
       /\ (last'.op = "deleteResumes" /\ ~last'.ok) => scans' = scans]_vars

====
